---- MODULE Spec2Model ----
(***************************************************************************)
(* State-machine model of src/src/pages/PatientLoginPage.tsx: the patient  *)
(* login / registration form.  React state hooks are the variables; every  *)
(* event handler is split at its awaits, one action per synchronous run.   *)
(* The auth service, the two RPCs and the patients table are the           *)
(* environment: each response is drawn from the outcomes its interface     *)
(* allows.  The effect of lines 22-38 re-subscribes the listener in the    *)
(* render that follows a change of its dependencies, so the listener reads *)
(* the state of the latest render.                                         *)
(***************************************************************************)
EXTENDS Integers, Sequences, FiniteSets

\* ---------------------------------------------------------------- bounds
\* check_patient_email calls that may be in flight together
MaxLookups == 2
\* check_patient_email calls for one e-mail that may be in flight together
MaxSameLookups == 1
\* auth-state notifications and listener callbacks pending together
MaxEvents == 1
\* mark_patient_registered calls counted after one sign-in
MaxMarkCalls == 2

\* minimum password length checked by handleRegistration
MinPasswordLen == 6

\* ---------------------------------------------------------------- values
\* Strings whose characters matter are sequences of one-character strings.
Emails ==
  { <<>>, <<"x">>, <<"a", "@", "b">>, <<"c", "@", "d">> }

Passwords ==
  { <<>>, <<"s", "e", "c", "r", "t">>, <<"s", "e", "c", "r", "e", "t">> }

\* String.prototype.includes for a one-character needle
Includes(s, ch) == \E i \in DOMAIN s : s[i] = ch

AtEmails == { e \in Emails : Includes(e, "@") }

NoEmail == <<"-">>

\* rows of check_patient_email
StatusRows == [email_exists : BOOLEAN, is_registered : BOOLEAN]

\* a row that disagrees with r in both columns
Opposite(r) == [email_exists |-> ~r.email_exists, is_registered |-> ~r.is_registered]

\* row sets of check_patient_email: none, one row, a row followed by one that
\* disagrees with it
RowLists ==
  { <<>> } \cup { <<r>> : r \in StatusRows } \cup { <<r, Opposite(r)>> : r \in StatusRows }

\* what `await supabase.rpc('check_patient_email')` can produce: a rejection, an
\* error result, null data, an array of rows, a single object
LookupResponses ==
  { [kind |-> "reject", data |-> <<>>], [kind |-> "error", data |-> <<>>],
    [kind |-> "null", data |-> <<>>] }
  \cup { [kind |-> "rows", data |-> d] : d \in RowLists }
  \cup { [kind |-> "object", data |-> <<r>>] : r \in StatusRows }

\* rows of the patients table for the verified e-mail
PatientRows(e) ==
  { [id |-> "p1", name |-> "Pat", email |-> e, psychologist_id |-> "psy1", created_at |-> "t1"],
    [id |-> "p2", name |-> "Sam", email |-> e, psychologist_id |-> "psy2", created_at |-> "t2"] }

NoItem == <<>>

\* JSON.stringify of an object literal: its members in the order written
JSONStringify(keys, obj) == [i \in DOMAIN keys |-> <<keys[i], obj[keys[i]]>>]

\* a member of the object JSON.parse gives back
JSONField(item, key) ==
  LET i == CHOOSE j \in DOMAIN item : item[j][1] = key IN item[i][2]

\* side effects of one step, in the order the code performs them
Toast(t, d) == <<"toast", t, d>>

Call(name) == <<"call", name>>

SetItem(key) == <<"setItem", key>>

Navigate(to) == <<"navigate", to>>

\* the response a step consumed, where the toast of the step does not tell it
Response(kind) == <<"response", kind>>

VARIABLES
  email, password, confirmPassword,   \* form fields (useState)
  loading, isRegistration, patientExists, hasMarkedRegistration,
  lookups,                            \* check_patient_email calls in flight: e-mail -> count
  regPc, loginPc,                     \* position of handleRegistration / handleLogin
  regEmail,                           \* e-mail handleRegistration passed to signUp
  loginEmail,                         \* authData.user.email held by handleLogin
  patient,                            \* the row handleLogin got from the patients table
  events,                             \* auth-state notifications not yet delivered
  timers,                             \* setTimeout(..., 0) callbacks not yet run
  reactiveRpc,                        \* listener's mark_patient_registered calls in flight
  patientSession,                     \* localStorage item 'patientSession'
  navigated,                          \* navigate('/patient-dashboard') has left the page
  effects,                            \* remote calls, toasts, writes of the step just taken
  reactiveFired,                      \* the listener has scheduled a reactive call
  lastSignIn,                         \* what established the latest auth session
  markCalls,                          \* mark_patient_registered calls since a registration sign-in
  statusEmail,                        \* e-mail whose lookup last wrote Patient Status
  patientStatus                       \* the Patient Status that lookup resolved

vars ==
  << email, password, confirmPassword, loading, isRegistration, patientExists,
     hasMarkedRegistration, lookups, regPc, loginPc, regEmail, loginEmail, patient,
     events, timers, reactiveRpc, patientSession, navigated, effects, lastSignIn,
     markCalls, statusEmail, patientStatus, reactiveFired >>

RECURSIVE SumOver(_, _)
SumOver(f, S) ==
  IF S = {} THEN 0
  ELSE LET x == CHOOSE y \in S : TRUE IN f[x] + SumOver(f, S \ {x})

\* number of check_patient_email calls awaiting their response
InFlight == SumOver(lookups, Emails)

Did(e) == \E i \in DOMAIN effects : effects[i] = e

Called(name) == Did(Call(name))

Toasted(title) == \E i \in DOMAIN effects : effects[i][1] = "toast" /\ effects[i][2] = title

\* useState initial values, lines 12-18
Init ==
  /\ email = <<>>
  /\ password = <<>>
  /\ confirmPassword = <<>>
  /\ loading = FALSE
  /\ isRegistration = FALSE
  /\ patientExists = FALSE
  /\ hasMarkedRegistration = FALSE
  /\ lookups = [e \in Emails |-> 0]
  /\ regPc = "idle"
  /\ loginPc = "idle"
  /\ regEmail = NoEmail
  /\ loginEmail = NoEmail
  /\ patient = <<>>
  /\ events = <<>>
  /\ timers = 0
  /\ reactiveRpc = 0
  /\ patientSession = NoItem
  /\ navigated = FALSE
  /\ effects = <<>>
  /\ reactiveFired = FALSE
  /\ lastSignIn = "none"
  /\ markCalls = 0
  /\ statusEmail = NoEmail
  /\ patientStatus = [emailExists |-> FALSE, isRegistered |-> FALSE]

\* ------------------------------------------------------- Status Resolver
\* `if (error) throw error`, or the awaited call itself rejects
LookupThrows(resp) == resp.kind \in {"reject", "error"}

\* rows = data ?? []; result = Array.isArray(rows) ? rows[0] : rows
\* (<<>> stands for undefined)
LookupResult(resp) ==
  IF resp.kind = "rows" /\ Len(resp.data) > 0 THEN <<resp.data[1]>>
  ELSE IF resp.kind = "object" THEN resp.data
  ELSE <<>>

\* what a call that gave no row leaves to see: it threw (lines 46, 56), or
\* `rows[0]` is undefined (lines 48-49); nothing when there is a row
LookupOutcome(resp) ==
  IF LookupThrows(resp) THEN << Response("failed") >>
  ELSE IF LookupResult(resp) = <<>> THEN << Response("empty") >>
  ELSE <<>>

\* a missing row read as an existing e-mail
EmailExistsOfMissingRow(resp) ==
  LET result == LookupResult(resp) IN result = <<>> \/ result[1].email_exists

\* !!result?.email_exists
EmailExistsOf(resp) ==
  LET result == LookupResult(resp) IN result # <<>> /\ result[1].email_exists

\* !!result?.is_registered
IsRegisteredOf(resp) ==
  LET result == LookupResult(resp) IN result # <<>> /\ result[1].is_registered

\* the mode taken from is_registered alone
ModeOfIgnoresExists(emailExists, isRegistered) == ~isRegistered

\* setIsRegistration(emailExists ? !isRegistered : false)
ModeOf(emailExists, isRegistered) == IF emailExists THEN ~isRegistered ELSE FALSE

\* a lookup for every non-empty value
NeedsLookupNonEmpty(newEmail) == newEmail # <<>>

\* newEmail.includes('@'), line 66
NeedsLookup(newEmail) == Includes(newEmail, "@")

\* handleEmailChange up to its await: setEmail, and the lookup when there is an '@'
HandleEmailChange(newEmail) ==
  /\ ~navigated
  /\ newEmail # email
  /\ email' = newEmail
  /\ IF NeedsLookup(newEmail)
       THEN /\ InFlight < MaxLookups
            /\ lookups[newEmail] < MaxSameLookups
            /\ lookups' = [lookups EXCEPT ![newEmail] = @ + 1]
            /\ effects' = << Call("check_patient_email") >>
       ELSE /\ lookups' = lookups
            /\ effects' = <<>>
  /\ UNCHANGED << password, confirmPassword, loading, isRegistration, patientExists,
                  hasMarkedRegistration, regPc, loginPc, regEmail, loginEmail, patient,
                  events, timers, reactiveRpc, patientSession, navigated, lastSignIn,
                  markCalls, statusEmail, patientStatus, reactiveFired >>

\* a completion that drops the result of a superseded call
CheckPatientStatusDropsStale(emailToCheck, resp) ==
  /\ ~navigated
  /\ lookups[emailToCheck] > 0
  /\ lookups' = [lookups EXCEPT ![emailToCheck] = @ - 1]
  /\ IF emailToCheck # email
       THEN /\ effects' = <<>>
            /\ UNCHANGED << patientExists, isRegistration, statusEmail, patientStatus >>
       ELSE /\ patientExists' = (~LookupThrows(resp) /\ EmailExistsOf(resp))
            /\ isRegistration' =
                 (~LookupThrows(resp) /\ ModeOf(EmailExistsOf(resp), IsRegisteredOf(resp)))
            /\ statusEmail' = emailToCheck
            /\ patientStatus' =
                 [emailExists |-> ~LookupThrows(resp) /\ EmailExistsOf(resp),
                  isRegistered |-> ~LookupThrows(resp) /\ IsRegisteredOf(resp)]
            /\ effects' = LookupOutcome(resp)
  /\ UNCHANGED << email, password, confirmPassword, loading, hasMarkedRegistration,
                  regPc, loginPc, regEmail, loginEmail, patient, events, timers,
                  reactiveRpc, patientSession, navigated, lastSignIn, markCalls,
                  reactiveFired >>

\* a catch that leaves the mode alone
CheckPatientStatusCatchKeepsMode(emailToCheck, resp) ==
  /\ ~navigated
  /\ lookups[emailToCheck] > 0
  /\ lookups' = [lookups EXCEPT ![emailToCheck] = @ - 1]
  /\ IF LookupThrows(resp)
       THEN /\ patientExists' = FALSE
            /\ isRegistration' = isRegistration
       ELSE /\ patientExists' = EmailExistsOf(resp)
            /\ isRegistration' = ModeOf(EmailExistsOf(resp), IsRegisteredOf(resp))
  /\ statusEmail' = emailToCheck
  /\ UNCHANGED reactiveFired
  /\ patientStatus' =
       IF LookupThrows(resp) THEN [emailExists |-> FALSE, isRegistered |-> FALSE]
       ELSE [emailExists |-> EmailExistsOf(resp), isRegistered |-> IsRegisteredOf(resp)]
  /\ effects' = LookupOutcome(resp)
  /\ UNCHANGED << email, password, confirmPassword, loading, hasMarkedRegistration,
                  regPc, loginPc, regEmail, loginEmail, patient, events, timers,
                  reactiveRpc, patientSession, navigated, lastSignIn, markCalls >>

\* checkPatientStatus after its await, for the call made with emailToCheck
CheckPatientStatus(emailToCheck, resp) ==
  /\ ~navigated
  /\ lookups[emailToCheck] > 0
  /\ lookups' = [lookups EXCEPT ![emailToCheck] = @ - 1]
  /\ IF LookupThrows(resp)
       THEN /\ patientExists' = FALSE
            /\ isRegistration' = FALSE
       ELSE /\ patientExists' = EmailExistsOf(resp)
            /\ isRegistration' = ModeOf(EmailExistsOf(resp), IsRegisteredOf(resp))
  /\ statusEmail' = emailToCheck
  /\ UNCHANGED reactiveFired
  /\ patientStatus' =
       IF LookupThrows(resp) THEN [emailExists |-> FALSE, isRegistered |-> FALSE]
       ELSE [emailExists |-> EmailExistsOf(resp), isRegistered |-> IsRegisteredOf(resp)]
  /\ effects' = LookupOutcome(resp)
  /\ UNCHANGED << email, password, confirmPassword, loading, hasMarkedRegistration,
                  regPc, loginPc, regEmail, loginEmail, patient, events, timers,
                  reactiveRpc, patientSession, navigated, lastSignIn, markCalls >>

\* onChange of the password field, line 244
SetPassword(p) ==
  /\ ~navigated
  /\ p # password
  /\ password' = p
  /\ effects' = <<>>
  /\ UNCHANGED << email, confirmPassword, loading, isRegistration, patientExists,
                  hasMarkedRegistration, lookups, regPc, loginPc, regEmail, loginEmail,
                  patient, events, timers, reactiveRpc, patientSession, navigated,
                  lastSignIn, markCalls, statusEmail, patientStatus, reactiveFired >>

\* onChange of the confirm field, rendered in Registration mode only, lines 257-264
SetConfirmPassword(p) ==
  /\ ~navigated
  /\ isRegistration
  /\ p # confirmPassword
  /\ confirmPassword' = p
  /\ effects' = <<>>
  /\ UNCHANGED << email, password, loading, isRegistration, patientExists,
                  hasMarkedRegistration, lookups, regPc, loginPc, regEmail, loginEmail,
                  patient, events, timers, reactiveRpc, patientSession, navigated,
                  lastSignIn, markCalls, statusEmail, patientStatus, reactiveFired >>

\* ------------------------------------------------ Mode-Driven Form Controller
\* the disabled attribute without the confirmPassword test
SubmitDisabledIgnoresConfirm ==
  \/ loading
  \/ email = <<>>
  \/ password = <<>>
  \/ (isRegistration /\ ~patientExists)

\* the attribute without the loading flag
SubmitDisabledIgnoresLoading ==
  \/ email = <<>>
  \/ password = <<>>
  \/ (isRegistration /\ (confirmPassword = <<>> \/ ~patientExists))

\* the submit Button's disabled attribute, line 275 ('' is falsy)
SubmitDisabled ==
  \/ loading
  \/ email = <<>>
  \/ password = <<>>
  \/ (isRegistration /\ (confirmPassword = <<>> \/ ~patientExists))

\* the inline "Email not found" hint, line 215
NotFoundNotice == ~patientExists /\ Includes(email, "@")

\* ----------------------------------------------------- Session Establisher
\* notifications and listener callbacks that are still to run
Pending == Len(events) + timers + reactiveRpc

\* the checks without the length test
ValidationErrorNoLength(pw, cpw) ==
  IF pw # cpw THEN "Passwords don't match" ELSE ""

\* the two checks of handleRegistration, lines 76-82: "" when both pass
ValidationError(pw, cpw) ==
  IF pw # cpw THEN "Passwords don't match"
  ELSE IF Len(pw) < MinPasswordLen THEN "Password must be at least 6 characters long"
  ELSE ""

\* handleRegistration from the submit event to its first await, lines 71-91
\* (a throw before the first await runs catch and finally in the same run)
SubmitRegistration ==
  /\ ~navigated
  /\ isRegistration
  /\ ~SubmitDisabled
  /\ IF ValidationError(password, confirmPassword) # ""
       THEN /\ effects' = << Toast("Registration Failed",
                                   ValidationError(password, confirmPassword)) >>
            /\ loading' = FALSE
            /\ UNCHANGED << regPc, regEmail >>
       ELSE /\ loading' = TRUE
            /\ regPc' = "signUp"
            /\ regEmail' = email
            /\ effects' = << Call("signUp") >>
  /\ UNCHANGED << email, password, confirmPassword, isRegistration, patientExists,
                  hasMarkedRegistration, lookups, loginPc, loginEmail, patient, events,
                  timers, reactiveRpc, patientSession, navigated, lastSignIn, markCalls,
                  statusEmail, patientStatus, reactiveFired >>

\* outcomes of supabase.auth.signUp: an error, no user, a user with a session,
\* a user whose e-mail confirmation is pending
SignUpResponses == {"error", "nouser", "session", "pending"}

\* catch and finally of handleRegistration, lines 122-130
RegistrationFails(message) ==
  /\ effects' = << Toast("Registration Failed", message) >>
  /\ loading' = FALSE
  /\ regPc' = "idle"
  /\ regEmail' = NoEmail
  /\ UNCHANGED << isRegistration, password, confirmPassword >>

\* the reset without setConfirmPassword("")
ResetFormKeepsConfirm(isReg, pw, cpw) == << FALSE, <<>>, cpw >>

\* what lines 118-120 make of isRegistration, password and confirmPassword
ResetForm(isReg, pw, cpw) == << FALSE, <<>>, <<>> >>

\* lines 117-120 and the finally of handleRegistration
RegistrationCompletes ==
  /\ isRegistration' = ResetForm(isRegistration, password, confirmPassword)[1]
  /\ password' = ResetForm(isRegistration, password, confirmPassword)[2]
  /\ confirmPassword' = ResetForm(isRegistration, password, confirmPassword)[3]
  /\ loading' = FALSE
  /\ regPc' = "idle"
  /\ regEmail' = NoEmail

\* a continuation that does not test authData.session before the direct call
SignUpReturnsMarksAlways(r) ==
  /\ ~navigated
  /\ regPc = "signUp"
  /\ r \in {"session", "pending"} => Includes(regEmail, "@")
  /\ CASE r = "error" ->
            /\ RegistrationFails("User already registered")
            /\ UNCHANGED << events, lastSignIn, markCalls >>
       [] r = "nouser" ->
            /\ RegistrationFails("Registration failed")
            /\ UNCHANGED << events, lastSignIn, markCalls >>
       [] r = "session" ->
            /\ Pending < MaxEvents
            /\ events' = Append(events, "SIGNED_IN")
            /\ lastSignIn' = "registration"
            /\ markCalls' = 1
            /\ regPc' = "mark"
            /\ effects' = << Call("mark_patient_registered") >>
            /\ UNCHANGED << isRegistration, password, confirmPassword, loading, regEmail >>
       [] r = "pending" ->
            /\ lastSignIn' = "registration"
            /\ markCalls' = 1
            /\ regPc' = "mark"
            /\ effects' = << Response("pending"), Call("mark_patient_registered") >>
            /\ UNCHANGED << isRegistration, password, confirmPassword, loading, regEmail,
                            events >>
  /\ UNCHANGED << email, patientExists, hasMarkedRegistration, lookups, loginPc,
                  loginEmail, patient, timers, reactiveRpc, patientSession, navigated,
                  statusEmail, patientStatus, reactiveFired >>

\* handleRegistration after `await supabase.auth.signUp`, lines 93-115
SignUpReturns(r) ==
  /\ ~navigated
  /\ regPc = "signUp"
  /\ r \in {"session", "pending"} => Includes(regEmail, "@")
  /\ CASE r = "error" ->
            /\ RegistrationFails("User already registered")
            /\ UNCHANGED << events, lastSignIn, markCalls >>
       [] r = "nouser" ->
            /\ RegistrationFails("Registration failed")
            /\ UNCHANGED << events, lastSignIn, markCalls >>
       [] r = "session" ->
            /\ Pending < MaxEvents
            /\ events' = Append(events, "SIGNED_IN")
            /\ lastSignIn' = "registration"
            /\ markCalls' = 1
            /\ regPc' = "mark"
            /\ effects' = << Call("mark_patient_registered") >>
            /\ UNCHANGED << isRegistration, password, confirmPassword, loading, regEmail >>
       [] r = "pending" ->
            /\ effects' = << Response("pending"), Toast("Confirm your email",
                  "We sent a confirmation link. After confirming, return here to sign in.") >>
            /\ RegistrationCompletes
            /\ UNCHANGED << events, lastSignIn, markCalls >>
  /\ UNCHANGED << email, patientExists, hasMarkedRegistration, lookups, loginPc,
                  loginEmail, patient, timers, reactiveRpc, patientSession, navigated,
                  statusEmail, patientStatus, reactiveFired >>

\* outcomes of an awaited supabase.rpc or signOut call: success, an error result,
\* a rejection
RpcResponses == {"ok", "error", "reject"}

\* a continuation without the inner try/catch: a rejection reaches the outer catch
MarkReturnsRethrows(r) ==
  /\ ~navigated
  /\ regPc = "mark"
  /\ IF r = "reject"
       THEN /\ effects' = << Response(r), Toast("Registration Failed", "Failed to fetch") >>
            /\ loading' = FALSE
            /\ regPc' = "idle"
            /\ regEmail' = NoEmail
            /\ UNCHANGED << isRegistration, password, confirmPassword >>
       ELSE /\ effects' = << Response(r), Toast("Registration successful!",
                                               "You're all set. You can now sign in.") >>
            /\ RegistrationCompletes
  /\ UNCHANGED << email, patientExists, hasMarkedRegistration, lookups, loginPc,
                  loginEmail, patient, events, timers, reactiveRpc, patientSession,
                  navigated, lastSignIn, markCalls, statusEmail, patientStatus, reactiveFired >>

\* handleRegistration after `await rpc('mark_patient_registered')`, lines 102-120:
\* a rejection is caught and logged, an error result is not looked at
MarkReturns(r) ==
  /\ ~navigated
  /\ regPc = "mark"
  /\ effects' = << Response(r),
                   Toast("Registration successful!", "You're all set. You can now sign in.") >>
  /\ RegistrationCompletes
  /\ UNCHANGED << email, patientExists, hasMarkedRegistration, lookups, loginPc,
                  loginEmail, patient, events, timers, reactiveRpc, patientSession,
                  navigated, lastSignIn, markCalls, statusEmail, patientStatus, reactiveFired >>

\* handleLogin from the submit event to its first await, lines 133-142
SubmitLogin ==
  /\ ~navigated
  /\ ~isRegistration
  /\ ~SubmitDisabled
  /\ loading' = TRUE
  /\ loginPc' = "signIn"
  /\ loginEmail' = email
  /\ effects' = << Call("signInWithPassword") >>
  /\ UNCHANGED << email, password, confirmPassword, isRegistration, patientExists,
                  hasMarkedRegistration, lookups, regPc, regEmail, patient, events,
                  timers, reactiveRpc, patientSession, navigated, lastSignIn, markCalls,
                  statusEmail, patientStatus, reactiveFired >>

\* outcomes of supabase.auth.signInWithPassword
SignInResponses == {"error", "nouser", "ok"}

\* the catch of handleLogin without its finally
LoginFailsKeepsLoading(message) ==
  /\ effects' = << Toast("Login Failed", message) >>
  /\ loading' = loading
  /\ loginPc' = "idle"
  /\ loginEmail' = NoEmail

\* a catch that also signs out
LoginFailsSignsOut(message) ==
  /\ effects' = << Toast("Login Failed", message), Call("signOut") >>
  /\ loading' = FALSE
  /\ loginPc' = "idle"
  /\ loginEmail' = NoEmail

\* catch and finally of handleLogin, lines 181-189
LoginFails(message) ==
  /\ effects' = << Toast("Login Failed", message) >>
  /\ loading' = FALSE
  /\ loginPc' = "idle"
  /\ loginEmail' = NoEmail

\* handleLogin after `await signInWithPassword`, lines 144-155
SignInReturns(r) ==
  /\ ~navigated
  /\ loginPc = "signIn"
  /\ CASE r = "error" ->
            /\ LoginFails("Invalid login credentials")
            /\ UNCHANGED << events, lastSignIn, markCalls >>
       [] r = "nouser" ->
            /\ LoginFails("Authentication failed")
            /\ UNCHANGED << events, lastSignIn, markCalls >>
       [] r = "ok" ->
            /\ Includes(loginEmail, "@")
            /\ Pending < MaxEvents
            /\ events' = Append(events, "SIGNED_IN")
            /\ lastSignIn' = "login"
            /\ markCalls' = 0
            /\ loginPc' = "patient"
            /\ effects' = << Call("patients") >>
            /\ UNCHANGED << loading, loginEmail >>
  /\ UNCHANGED << email, password, confirmPassword, isRegistration, patientExists,
                  hasMarkedRegistration, lookups, regPc, regEmail, patient, timers,
                  reactiveRpc, patientSession, navigated, statusEmail, patientStatus, reactiveFired >>

\* outcomes of the patients query with maybeSingle(): an error, no row, one row
PatientResponses(e) ==
  { [kind |-> "error", row |-> <<>>], [kind |-> "none", row |-> <<>>] }
  \cup { [kind |-> "row", row |-> <<p>>] : p \in PatientRows(e) }

\* `patientError || !patient`, line 157
AccessDenied(resp) == resp.kind = "error" \/ resp.row = <<>>

\* the members without psychologist_id
SessionKeysNoPsychologist == << "id", "name", "email" >>

\* the members written to localStorage, lines 168-173
SessionKeys == << "id", "name", "email", "psychologist_id" >>

\* what handleLogin does with a patient row, lines 167-180
LoginSucceeds(row) ==
  /\ patientSession' = JSONStringify(SessionKeys, row)
  /\ navigated' = TRUE
  /\ effects' = << SetItem("patientSession"), Toast("Welcome back!", row.name),
                   Navigate("/patient-dashboard") >>
  /\ loading' = FALSE
  /\ loginPc' = "idle"
  /\ loginEmail' = NoEmail

\* the denial without the sign-out
LoginDeniedNoSignOut ==
  /\ effects' = << Toast("Access denied",
                         "You are not registered as a patient in this system.") >>
  /\ loginPc' = "idle"
  /\ loading' = FALSE
  /\ loginEmail' = NoEmail
  /\ UNCHANGED << patientSession, navigated >>

\* a denial that also removes the stored record
LoginDeniedClearsSession ==
  /\ effects' = << Toast("Access denied",
                         "You are not registered as a patient in this system."),
                   Call("signOut") >>
  /\ loginPc' = "signOut"
  /\ patientSession' = NoItem
  /\ UNCHANGED << navigated, loading, loginEmail >>

\* what handleLogin does without one, lines 158-163
LoginDenied ==
  /\ effects' = << Toast("Access denied",
                         "You are not registered as a patient in this system."),
                   Call("signOut") >>
  /\ loginPc' = "signOut"
  /\ UNCHANGED << patientSession, navigated, loading, loginEmail >>

\* handleLogin after the patients query, lines 157-180
PatientReturns(resp) ==
  /\ ~navigated
  /\ loginPc = "patient"
  /\ resp \in PatientResponses(loginEmail)
  /\ patient' = resp.row
  /\ IF AccessDenied(resp) THEN LoginDenied ELSE LoginSucceeds(resp.row[1])
  /\ UNCHANGED << email, password, confirmPassword, isRegistration, patientExists,
                  hasMarkedRegistration, lookups, regPc, regEmail, events, timers,
                  reactiveRpc, lastSignIn, markCalls, statusEmail, patientStatus, reactiveFired >>

\* handleLogin after `await supabase.auth.signOut()`, lines 163-164 and 181-189
SignOutReturns(r) ==
  /\ ~navigated
  /\ loginPc = "signOut"
  /\ CASE r = "ok" ->
            /\ Pending < MaxEvents
            /\ events' = Append(events, "SIGNED_OUT")
            /\ loading' = FALSE
            /\ loginPc' = "idle"
            /\ loginEmail' = NoEmail
            /\ effects' = <<>>
       [] r = "error" ->
            /\ loading' = FALSE
            /\ loginPc' = "idle"
            /\ loginEmail' = NoEmail
            /\ effects' = <<>>
            /\ UNCHANGED events
       [] r = "reject" ->
            /\ LoginFails("Failed to fetch")
            /\ UNCHANGED events
  /\ UNCHANGED << email, password, confirmPassword, isRegistration, patientExists,
                  hasMarkedRegistration, lookups, regPc, regEmail, patient, timers,
                  reactiveRpc, patientSession, navigated, lastSignIn, markCalls,
                  statusEmail, patientStatus, reactiveFired >>

\* ------------------------------------------------- auth-state listener
\* the listener's test, line 24
ListenerFires(event, isReg, hasMarked) == event = "SIGNED_IN" /\ isReg /\ ~hasMarked

\* the subscribed listener receives the oldest pending notification, lines 23-33
OnAuthStateChange ==
  /\ ~navigated
  /\ events # <<>>
  /\ events' = Tail(events)
  /\ timers' = IF ListenerFires(Head(events), isRegistration, hasMarkedRegistration)
                 THEN timers + 1 ELSE timers
  /\ reactiveFired' =
       (reactiveFired \/ ListenerFires(Head(events), isRegistration, hasMarkedRegistration))
  /\ effects' = <<>>
  /\ UNCHANGED << email, password, confirmPassword, loading, isRegistration,
                  patientExists, hasMarkedRegistration, lookups, regPc, loginPc, regEmail,
                  loginEmail, patient, reactiveRpc, patientSession, navigated, lastSignIn,
                  markCalls, statusEmail, patientStatus >>

\* the setTimeout callback up to its await, lines 25-27
TimerFires ==
  /\ ~navigated
  /\ timers > 0
  /\ markCalls < MaxMarkCalls
  /\ timers' = timers - 1
  /\ reactiveRpc' = reactiveRpc + 1
  /\ markCalls' = IF lastSignIn = "registration" THEN markCalls + 1 ELSE markCalls
  /\ effects' = << Call("mark_patient_registered") >>
  /\ UNCHANGED << email, password, confirmPassword, loading, isRegistration,
                  patientExists, hasMarkedRegistration, lookups, regPc, loginPc, regEmail,
                  loginEmail, patient, events, patientSession, navigated, lastSignIn,
                  statusEmail, patientStatus, reactiveFired >>

\* the setTimeout callback after its await, lines 28-31: only a rejection skips
\* setHasMarkedRegistration(true)
ReactiveMarkReturns(r) ==
  /\ ~navigated
  /\ reactiveRpc > 0
  /\ reactiveRpc' = reactiveRpc - 1
  /\ hasMarkedRegistration' = IF r = "reject" THEN hasMarkedRegistration ELSE TRUE
  /\ effects' = <<>>
  /\ UNCHANGED << email, password, confirmPassword, loading, isRegistration,
                  patientExists, lookups, regPc, loginPc, regEmail, loginEmail, patient,
                  events, timers, patientSession, navigated, lastSignIn, markCalls,
                  statusEmail, patientStatus, reactiveFired >>

Next ==
  \/ \E e \in Emails : HandleEmailChange(e)
  \/ \E e \in Emails, resp \in LookupResponses : CheckPatientStatus(e, resp)
  \/ \E p \in Passwords : SetPassword(p)
  \/ \E p \in Passwords : SetConfirmPassword(p)
  \/ SubmitRegistration
  \/ \E r \in SignUpResponses : SignUpReturns(r)
  \/ \E r \in RpcResponses : MarkReturns(r)
  \/ SubmitLogin
  \/ \E r \in SignInResponses : SignInReturns(r)
  \/ \E resp \in PatientResponses(loginEmail) : PatientReturns(resp)
  \/ \E r \in RpcResponses : SignOutReturns(r)
  \/ OnAuthStateChange
  \/ TimerFires
  \/ \E r \in RpcResponses : ReactiveMarkReturns(r)

Spec == Init /\ [][Next]_vars

\* the item a successful login of this page wrote on an earlier visit
EarlierRecord ==
  JSONStringify(SessionKeys,
                CHOOSE p \in PatientRows(<<"c", "@", "d">>) : p.id = "p2")

\* the page mounted again in a browser whose localStorage still holds that item:
\* the component state is new, the item is not read
InitReturn ==
  /\ email = <<>>
  /\ password = <<>>
  /\ confirmPassword = <<>>
  /\ loading = FALSE
  /\ isRegistration = FALSE
  /\ patientExists = FALSE
  /\ hasMarkedRegistration = FALSE
  /\ lookups = [e \in Emails |-> 0]
  /\ regPc = "idle"
  /\ loginPc = "idle"
  /\ regEmail = NoEmail
  /\ loginEmail = NoEmail
  /\ patient = <<>>
  /\ events = <<>>
  /\ timers = 0
  /\ reactiveRpc = 0
  /\ patientSession = EarlierRecord
  /\ navigated = FALSE
  /\ effects = <<>>
  /\ reactiveFired = FALSE
  /\ lastSignIn = "none"
  /\ markCalls = 0
  /\ statusEmail = NoEmail
  /\ patientStatus = [emailExists |-> FALSE, isRegistered |-> FALSE]

SpecReturn == InitReturn /\ [][Next]_vars

\* the continuation after an await of handleRegistration or handleLogin runs: the
\* awaited call has completed or rejected
HandlerResumes ==
  \/ \E r \in SignUpResponses : SignUpReturns(r)
  \/ \E r \in RpcResponses : MarkReturns(r)
  \/ \E r \in SignInResponses : SignInReturns(r)
  \/ \E resp \in PatientResponses(loginEmail) : PatientReturns(resp)
  \/ \E r \in RpcResponses : SignOutReturns(r)

\* the e-mail values typed in the liveness check: the empty one, one without and one
\* with '@'. A handler's control flow reads of an e-mail only whether it is empty
\* (line 275) and whether the services accept it
LiveEmails == Emails \ { <<"c", "@", "d">> }

\* the steps of Next with the e-mails drawn from LiveEmails
LiveNext ==
  \/ \E e \in LiveEmails : HandleEmailChange(e)
  \/ \E e \in LiveEmails, resp \in LookupResponses : CheckPatientStatus(e, resp)
  \/ \E p \in Passwords : SetPassword(p)
  \/ \E p \in Passwords : SetConfirmPassword(p)
  \/ SubmitRegistration
  \/ \E r \in SignUpResponses : SignUpReturns(r)
  \/ \E r \in RpcResponses : MarkReturns(r)
  \/ SubmitLogin
  \/ \E r \in SignInResponses : SignInReturns(r)
  \/ \E resp \in PatientResponses(loginEmail) : PatientReturns(resp)
  \/ \E r \in RpcResponses : SignOutReturns(r)
  \/ OnAuthStateChange
  \/ TimerFires
  \/ \E r \in RpcResponses : ReactiveMarkReturns(r)

\* no awaited call of a submit handler stays pending for ever. A handler waits on one
\* call at a time and the handlers do not overlap, so one fairness condition on the
\* resumption covers each call
LiveSpec == Init /\ [][LiveNext]_vars /\ WF_vars(HandlerResumes)

\* ------------------------------------------------------------ properties
\* the step just taken ran a submit handler on an invalid or a valid form
SubmissionStarted ==
  \/ Called("signUp")
  \/ Called("signInWithPassword")
  \/ (Toasted("Registration Failed") /\ regPc = "idle" /\ loading = FALSE
      /\ effects[1][3] \in {"Passwords don't match",
                            "Password must be at least 6 characters long"})

\* C1: after a registration whose sign-up returned a session, mark_patient_registered
\* has been called exactly once, the direct and the reactive call counted together.
C1_MarkedExactlyOnce == lastSignIn = "registration" => markCalls = 1

\* C2: while the status on display is the lookup result for the e-mail in the field,
\* that e-mail contains '@' and was resolved as not existing, the form is in Login
\* mode, the not-found notice is shown and the submit control is disabled.
C2_NotFoundDisablesSubmit ==
  (statusEmail = email /\ Includes(email, "@") /\ ~patientStatus.emailExists /\ ~loading)
    => (~isRegistration /\ NotFoundNotice /\ SubmitDisabled)

\* C3: signUp is only requested while the e-mail in the field is the one the Patient
\* Status was resolved for, and that status says the e-mail exists (stated for the
\* e-mails with an '@', which the input's type="email" lets through).
C3_SignUpOnlyForResolvedEmail ==
  [][(Called("signUp")' /\ Includes(email, "@"))
       => (statusEmail = email /\ patientStatus.emailExists)]_vars

\* C4: when the patients query of a login returns no row or an error, the step calls
\* signOut, and neither it nor the rest of the handler writes the Local Session
\* Record or navigates.
C4_DeniedLoginSignsOut ==
  [][/\ (loginPc = "patient" /\ loginPc' # "patient" /\ patient' = <<>>)
          => (/\ Called("signOut")'
              /\ Toasted("Access denied")'
              /\ ~Did(SetItem("patientSession"))'
              /\ ~Did(Navigate("/patient-dashboard"))'
              /\ patientSession' = patientSession
              /\ ~navigated')
     /\ loginPc = "signOut" => (patientSession' = patientSession /\ ~navigated')]_vars

C4_Witness ==
  /\ loginPc = "signOut"
  /\ patient = <<>>
  /\ effects = << Toast("Access denied", "You are not registered as a patient in this system."),
                  Call("signOut") >>
  /\ patientSession = NoItem
  /\ ~navigated

\* C5: when the patients query of a login returns a row, the Local Session Record
\* holds exactly that row's id, name, email and psychologist_id, the page
\* navigates to the dashboard after the write, and signOut is not called.
C5_LoginStoresRecord ==
  [][(loginPc = "patient" /\ loginPc' # "patient" /\ patient' # <<>>)
       => (/\ Len(patientSession') = 4
           /\ { patientSession'[i][1] : i \in 1..Len(patientSession') }
                = {"id", "name", "email", "psychologist_id"}
           /\ JSONField(patientSession', "id") = patient'[1].id
           /\ JSONField(patientSession', "name") = patient'[1].name
           /\ JSONField(patientSession', "email") = patient'[1].email
           /\ JSONField(patientSession', "psychologist_id") = patient'[1].psychologist_id
           /\ navigated'
           /\ \E i, j \in DOMAIN effects' :
                /\ i < j
                /\ effects'[i] = SetItem("patientSession")
                /\ effects'[j] = Navigate("/patient-dashboard")
           /\ ~Called("signOut")')]_vars

C5_Witness ==
  /\ navigated
  /\ patient # <<>>
  /\ patient[1].id = "p2"
  /\ patientSession = << <<"id", "p2">>, <<"name", "Sam">>, <<"email", <<"a", "@", "b">> >>,
                         <<"psychologist_id", "psy2">> >>
  /\ Did(Navigate("/patient-dashboard"))

\* Form Mode differs from the function of the Patient Status last resolved
ModeDiverges == isRegistration # (patientStatus.emailExists /\ ~patientStatus.isRegistered)

\* C6: a lookup completion leaves Form Mode at Registration exactly when the resolved
\* status is emailExists and not isRegistered; Form Mode comes to differ from that
\* function of the status only in the step that completes a registration.
C6_ModeFollowsStatus ==
  [][/\ (lookups' # lookups /\ ~Called("check_patient_email")') => ~ModeDiverges'
     /\ (ModeDiverges' /\ ~ModeDiverges)
          => (regPc # "idle" /\ regPc' = "idle" /\ ~isRegistration'
              /\ (Toasted("Registration successful!")' \/ Toasted("Confirm your email")'))]_vars

C6_Witness ==
  /\ isRegistration
  /\ patientStatus = [emailExists |-> TRUE, isRegistered |-> FALSE]
  /\ statusEmail = email
  /\ InFlight = 0

\* C7: a registration submission with password # confirmPassword or a password
\* shorter than 6 reports a validation error and calls neither signUp nor
\* mark_patient_registered.
C7_InvalidRegistrationCallsNothing ==
  [][/\ (regPc = "idle" /\ (password # confirmPassword \/ Len(password) < 6))
          => (regPc' = "idle" /\ ~Called("signUp")')
     /\ (regPc = "idle" /\ Toasted("Registration Failed")')
          => (/\ password # confirmPassword \/ Len(password) < 6
              /\ Len(effects') = 1
              /\ effects'[1][3] = (IF password # confirmPassword
                                     THEN "Passwords don't match"
                                     ELSE "Password must be at least 6 characters long")
              /\ markCalls' = markCalls
              /\ ~loading')]_vars

C7_Witness ==
  /\ effects = << Toast("Registration Failed", "Password must be at least 6 characters long") >>
  /\ isRegistration
  /\ Len(password) = 5
  /\ password = confirmPassword
  /\ regPc = "idle"

\* C8: when a registration whose sign-up was accepted completes, with a session or
\* with the confirmation pending, Form Mode is Login and password and
\* confirmPassword are empty.
C8_RegistrationResetsForm ==
  (Toasted("Registration successful!") \/ Toasted("Confirm your email"))
    => (~isRegistration /\ password = <<>> /\ confirmPassword = <<>> /\ regPc = "idle")

C8_Witness ==
  /\ Toasted("Registration successful!")
  /\ ~isRegistration
  /\ password = <<>>
  /\ confirmPassword = <<>>
  /\ patientExists

\* C9: no submission starts from a state where email or password is empty, nor, in
\* Registration mode, where confirmPassword is empty or the e-mail does not exist.
C9_SubmitNeedsFields ==
  [][(\/ email = <<>>
      \/ password = <<>>
      \/ (isRegistration /\ (confirmPassword = <<>> \/ ~patientExists)))
       => ~SubmissionStarted']_vars

C9_Witness ==
  /\ isRegistration
  /\ email # <<>>
  /\ password # <<>>
  /\ confirmPassword = <<>>
  /\ ~loading
  /\ SubmitDisabled

\* C10: an e-mail change to a value without '@' starts no lookup and changes nothing
\* but the email field: Patient Status and Form Mode stay as they were.
C10_NoLookupWithoutAt ==
  [][(email' # email /\ ~Includes(email', "@"))
       => (/\ ~Called("check_patient_email")'
           /\ lookups' = lookups
           /\ patientExists' = patientExists
           /\ isRegistration' = isRegistration
           /\ UNCHANGED << password, confirmPassword, loading, hasMarkedRegistration >>)]_vars

C10_Witness ==
  /\ email = <<"x">>
  /\ isRegistration
  /\ patientExists
  /\ statusEmail = <<"a", "@", "b">>
  /\ InFlight = 0
  /\ effects = <<>>

\* C11: when every awaited remote call completes or rejects, a submission that has set
\* the loading flag eventually clears it, whichever way its handler ends: at every
\* moment there is a later one with loading false (the same as loading ~> ~loading).
C11_LoadingEventuallyClears == []<>(~loading)

C11_Witness ==
  /\ ~loading
  /\ regPc = "idle"
  /\ loginPc = "idle"
  /\ Did(Toast("Login Failed", "Failed to fetch"))

\* C12: a lookup that fails (an error result or a thrown exception) or that returns no
\* row resolves Patient Status to {email_exists: false, is_registered: false} and puts
\* the form in Login mode.
C12_FailedLookupResolvesAbsent ==
  [][(Did(Response("failed"))' \/ Did(Response("empty"))')
       => (/\ ~patientExists'
           /\ ~isRegistration'
           /\ patientStatus' = [emailExists |-> FALSE, isRegistered |-> FALSE]
           /\ lookups' # lookups)]_vars

C12_Witness ==
  /\ Did(Response("failed"))
  /\ statusEmail = email
  /\ confirmPassword # <<>>
  /\ ~patientExists
  /\ ~isRegistration

\* C13: in one mounted session the listener starts the reactive mark_patient_registered
\* call at most once: once a notification has scheduled it, no later notification
\* schedules another.
C13_ReactiveAtMostOnce == [][timers' > timers => ~reactiveFired]_vars

\* C14: when signInWithPassword rejects the credentials of a login submission the
\* failure is reported and nothing else happens: no patients query, no write of the
\* Local Session Record, no sign-out, no navigation, no auth-state notification.
C14_RejectedLoginChangesNothing ==
  [][(loginPc = "signIn" /\ Toasted("Login Failed")')
       => (/\ effects' \in { << Toast("Login Failed", "Invalid login credentials") >>,
                             << Toast("Login Failed", "Authentication failed") >> }
           /\ patientSession' = patientSession
           /\ navigated' = navigated
           /\ patient' = patient
           /\ events' = events
           /\ loginPc' = "idle"
           /\ ~loading')]_vars

C14_Witness ==
  /\ Did(Toast("Login Failed", "Invalid login credentials"))
  /\ loginPc = "idle"
  /\ ~loading
  /\ patientSession = NoItem
  /\ ~navigated
  /\ events = <<>>

\* C15: a lookup response is applied whatever the e-mail field holds by then, so the
\* response for an earlier e-mail that arrives after the response for a later one
\* overwrites Patient Status and Form Mode; with no lookup left in flight the form can
\* show the status of an e-mail that is not the one in the field.
C15_StaleLookupOverwrites ==
  [][\A e \in AtEmails :
       (lookups'[e] < lookups[e] /\ e # email)
         => (/\ statusEmail' = e
             /\ patientExists' = patientStatus'.emailExists
             /\ isRegistration' =
                  (patientStatus'.emailExists /\ ~patientStatus'.isRegistered))]_vars

C15_Witness ==
  /\ InFlight = 0
  /\ Includes(email, "@")
  /\ statusEmail \in AtEmails
  /\ statusEmail # email
  /\ isRegistration
  /\ patientStatus.emailExists
  /\ ~patientStatus.isRegistered

\* C16: while loading is true the submit control is disabled; a handler in flight
\* keeps loading true, so no submission starts while one is in flight and the
\* registration and the login handler are never in flight together.
C16_OneSubmissionInFlight ==
  /\ [](loading => SubmitDisabled)
  /\ []((regPc # "idle" \/ loginPc # "idle") => loading)
  /\ [](regPc = "idle" \/ loginPc = "idle")
  /\ [][loading => ~SubmissionStarted']_vars

C16_Witness ==
  /\ loading
  /\ regPc = "signUp"
  /\ isRegistration
  /\ patientExists
  /\ email # <<>>
  /\ password # <<>>
  /\ confirmPassword # <<>>
  /\ SubmitDisabled

\* C17: in a registration whose sign-up returned a session, a failing
\* mark_patient_registered call (an error result or a rejection) is swallowed: the
\* handler still shows the success toast and no failure toast, puts the form in Login
\* mode and clears both password fields.
C17_MarkFailureSwallowed ==
  [][(Did(Response("error"))' \/ Did(Response("reject"))')
       => (/\ regPc = "mark"
           /\ Toasted("Registration successful!")'
           /\ ~Toasted("Registration Failed")'
           /\ ~isRegistration'
           /\ password' = <<>>
           /\ confirmPassword' = <<>>
           /\ regPc' = "idle"
           /\ ~loading')]_vars

C17_Witness ==
  /\ Did(Response("reject"))
  /\ Toasted("Registration successful!")
  /\ ~isRegistration
  /\ password = <<>>
  /\ confirmPassword = <<>>
  /\ lastSignIn = "registration"

\* C18: when sign-up is accepted without a session (confirmation pending) the
\* registration handler calls nothing more, mark_patient_registered included, and
\* shows the "Confirm your email" toast instead of the success toast.
C18_PendingSignUpMarksNothing ==
  [][Did(Response("pending"))'
       => (/\ regPc = "signUp"
           /\ effects' = << Response("pending"), Toast("Confirm your email",
                 "We sent a confirmation link. After confirming, return here to sign in.") >>
           /\ markCalls' = markCalls
           /\ events' = events
           /\ regPc' = "idle"
           /\ ~loading')]_vars

C18_Witness ==
  /\ Did(Response("pending"))
  /\ Toasted("Confirm your email")
  /\ regPc = "idle"
  /\ ~isRegistration
  /\ timers + reactiveRpc = 0
  /\ lastSignIn = "none"
  /\ markCalls = 0

\* C19: the Local Session Record changes only in the step of a login that verified
\* the credentials and found a patient row, which writes that row's record; no other
\* step writes or clears it, so the record of an earlier login is still there after a
\* later denied login and its sign-out.
C19_OnlyLoginWritesRecord ==
  [][patientSession' # patientSession
       => (/\ loginPc = "patient"
           /\ patient' # <<>>
           /\ Did(SetItem("patientSession"))'
           /\ patientSession' = JSONStringify(SessionKeys, patient'[1])
           /\ patientSession' # NoItem)]_vars

C19_Witness ==
  /\ patientSession = EarlierRecord
  /\ patient = <<>>
  /\ lastSignIn = "login"
  /\ events = << "SIGNED_OUT" >>
  /\ loginPc = "idle"
  /\ ~loading

\* C20: Registration mode implies that the last resolved e-mail exists: no sequence of
\* e-mail edits, lookup completions, submissions and notifications reaches a state
\* with isRegistration true and patientExists false.
C20_RegistrationNeedsPatient == isRegistration => patientExists

C20_Witness ==
  /\ isRegistration
  /\ patientExists
  /\ hasMarkedRegistration
  /\ lastSignIn = "registration"
  /\ InFlight = 0

====
